---- MODULE Spec2Model ----
(***************************************************************************)
(* State-machine model of cocos2d::network::Downloader                     *)
(* (src/cocos/vr/CCVRDistortionMesh.cpp, lines 187-738).                   *)
(*                                                                         *)
(* One Downloader instance, one call in flight.  The call runs either on   *)
(* the owning (cocos) thread (the *Sync entry points) or on a detached     *)
(* worker thread (the *Async entry points).  The owning thread runs the    *)
(* closures handed to performFunctionInCocosThread in FIFO order and may   *)
(* drop the caller's shared_ptr to the Downloader whenever it is idle.     *)
(* The transfer engine (DownloaderImpl), the file system and the scheduler *)
(* are collaborators whose code is not part of the sources.                *)
(* All three user handlers are assumed to be installed.                    *)
(***************************************************************************)
EXTENDS Integers, Sequences, FiniteSets, TLC

(***************************************************************************)
(* Bounds of the model                                                     *)
(***************************************************************************)
\* units in one batch call
MaxUnits == 3
\* callbacks the engine issues during one call of the Downloader
MaxEngineSteps == 2
\* largest byte count the engine reports to a progress callback
MaxBytes == 1
\* largest capacity of a caller-supplied buffer
MaxCap == 1
\* open-file limit of the platform (<cstdio>), scaled down
FOPEN_MAX == 2
\* calls made one after the other on one Downloader
MaxCalls == 2

(***************************************************************************)
(* Program constants                                                       *)
(***************************************************************************)
TEMP_EXT == ".temp"
CocosThread == "main"
WorkerThread == "worker"
\* result codes of the engine: CURLE_OK, CURLE_COULDNT_CONNECT, CURLE_WRITE_ERROR
CURLE_OK == 0
CURLE_COULDNT_CONNECT == 7
CURLE_WRITE_ERROR == 23

Separators == {"/", "\\"}

UnitNames == <<"f1", "f2", "f3", "f4", "f5">>
UnitIds == <<"u1", "u2", "u3", "u4", "u5">>
UnitUrls == <<"http://1", "http://2", "http://3", "http://4", "http://5">>

\* a destination with a directory part, and one without any separator
GoodPath(i) == <<"d", "/", UnitNames[i]>>
BadPath(i) == <<UnitNames[i]>>

NullFP == [file |-> <<>>, mode |-> "null"]

\* ProgressData as left by its default constructor
EmptyProgressData ==
    [customId |-> "", url |-> "", path |-> <<>>, name |-> <<>>,
     downloaded |-> 0, totalToDownload |-> 0]

(***************************************************************************)
(* Strings are sequences of tokens; std::string operations on them         *)
(***************************************************************************)
\* std::string::find_last_of("/\\"): 0 stands for npos, positions are 1-based
FindLastOf(s) ==
    LET idx == {i \in 1..Len(s) : s[i] \in Separators}
    IN  IF idx = {} THEN 0 ELSE CHOOSE i \in idx : \A j \in idx : j <= i

Substr(s, from, to) == SubSeq(s, from, to)

(***************************************************************************)
(* File system: a function from the names of the existing files to their   *)
(* contents.  A byte is 0 when it was on disk before the first call, and n  *)
(* when the n-th call on the Downloader wrote it.                          *)
(***************************************************************************)
isFileExist(f, name) == name \in DOMAIN f

WriteFile(f, name, content) ==
    [n \in (DOMAIN f) \cup {name} |-> IF n = name THEN content ELSE f[n]]

removeFile(f, name) == [n \in (DOMAIN f) \ {name} |-> f[n]]

\* FileUtils::renameFile(path, oldname, name): fails when the old file is missing
\* or the new name is empty
renameOk(f, path, oldname, name) ==
    /\ isFileExist(f, path \o oldname)
    /\ name # <<>>

renameFile(f, path, oldname, name) ==
    IF renameOk(f, path, oldname, name)
    THEN WriteFile(removeFile(f, path \o oldname), path \o name, f[path \o oldname])
    ELSE f

\* fopen(name, "ab") keeps the content, fopen(name, "wb") truncates; both create
fopenFile(f, name, mode) ==
    IF mode = "ab" /\ isFileExist(f, name) THEN f ELSE WriteFile(f, name, <<>>)

\* fwrite through an open handle: bytes go to the end of the file (a file that was
\* unlinked while open takes the bytes without showing them)
fwrite(f, fp, bytes) ==
    IF isFileExist(f, fp.file) THEN WriteFile(f, fp.file, f[fp.file] \o bytes) ELSE f

(***************************************************************************)
(* State                                                                   *)
(***************************************************************************)
VARIABLES
    \* the Downloader object and the references that keep it alive
    destroyed,        \* ~Downloader has run
    callerRef,        \* the caller still holds its shared_ptr
    workerRef,        \* batchDownloadSync holds its local `shared`
    supportResuming,  \* _supportResuming
    progDatas,        \* _progDatas
    implUrl,          \* the url DownloaderImpl::init was last given
    \* the call in flight
    op,               \* entry point, thread and arguments
    pc,               \* position of the calling thread
    units,            \* the DownloadUnits handed to the engine (with their fp)
    data,             \* the local ProgressData of a single transfer
    res,              \* result of performDownload
    steps,            \* callbacks issued by the engine in the current perform call
    it,               \* batchDownloadSync: loop iterator
    count,            \* batchDownloadSync: count
    group,            \* batchDownloadSync: group
    streamBuffer,     \* downloadToBuffer: the local StreamData
    \* the environment
    fs,               \* the file system
    queue,            \* closures given to performFunctionInCocosThread
    mainPc,           \* owning thread: "idle", or "act" inside a closure
    log,              \* invocations of the user's handlers
    \* history
    opens,            \* fopen calls of prepareDownload
    renamed,          \* renameFile calls that moved a file
    handed,           \* unit groups given to performBatchDownload
    acct,             \* per-group accounting outcomes
    stores,           \* memcpy destinations of bufferWriteFunc
    calls,            \* the progress callbacks the engine has made, in order
    round,            \* the number of the call in flight on this Downloader
    batches,          \* two batches at once: the position of each in its code
    singles,          \* two single transfers at once: position and outcome of each
    writes,           \* what bufferWriteFunc read through the unit, call by call
    implError,        \* the transfer DownloaderImpl::getStrError speaks about
    uafWorker,        \* a worker used the Downloader after its destruction
    uafClosure,       \* a closure used the Downloader after its destruction
    assertFailed,     \* a CC_ASSERT failed
    ubFclose          \* fclose was called on a null handle

dlVars == <<destroyed, callerRef, workerRef, supportResuming, progDatas, implUrl>>
loopVars == <<it, count, group, streamBuffer>>
callVars == <<op, pc, units, data, res, steps, loopVars>>
envVars == <<fs, queue, mainPc, log>>
histVars == <<opens, renamed, handed, acct, stores, calls, round, batches, singles, writes, implError, uafWorker, uafClosure,
              assertFailed, ubFclose>>
vars == <<dlVars, callVars, envVars, histVars>>

NoOp ==
    [kind |-> "none", thread |-> CocosThread, url |-> "", id |-> "", path |-> <<>>,
     cap |-> 0, units |-> <<>>, batchId |-> "", noOpen |-> {}]

\* the temp file of unit i
TempPath(i) == Append(GoodPath(i), TEMP_EXT)

\* files a previous, failed batch has left behind
LeftOver(S) == [n \in {TempPath(i) : i \in S} |-> <<0>>]

\* What can be wrong with the destinations of a call with n units: nothing, one
\* storage path without a directory part, or one temp file that fopen refuses
Min(a, b) == IF a < b THEN a ELSE b

Troubles(n) ==
    {[bad |-> 0, lock |-> 0]}
        \cup {[bad |-> i, lock |-> 0] : i \in 1..Min(n, 2)}
        \cup {[bad |-> 0, lock |-> i] : i \in 1..Min(n, 2)}

\* the threads that can each run a batch of their own at the same time
BatchThreads == {1, 2}

\* the threads that can each run a single transfer of their own at the same time
AsyncThreads == {1, 2}

\* a thread that has not been given a transfer: what it runs, the url the engine
\* transferred for it, the result, and the transfer its error message came from
IdleSingle == [pc |-> "idle", kind |-> "none", did |-> "", res |-> 0, msg |-> ""]

Init ==
    /\ destroyed = FALSE
    /\ callerRef = TRUE
    /\ workerRef = FALSE
    /\ supportResuming = FALSE
    /\ progDatas = <<>>
    /\ implUrl = ""
    /\ op = NoOp
    /\ pc = "idle"
    /\ units = <<>>
    /\ data = EmptyProgressData
    /\ res = 0
    /\ steps = 0
    /\ it = 1
    /\ count = 0
    /\ group = <<>>
    /\ streamBuffer = [total |-> 0, offset |-> 0]
    /\ fs = LeftOver({1})
    /\ queue = <<>>
    /\ mainPc = "idle"
    /\ log = <<>>
    /\ opens = {}
    /\ renamed = {}
    /\ handed = <<>>
    /\ acct = <<>>
    /\ stores = {}
    /\ calls = <<>>
    /\ round = 1
    /\ batches = [t \in BatchThreads |-> [pc |-> "idle", n |-> 0]]
    /\ singles = [t \in AsyncThreads |-> IdleSingle]
    /\ writes = <<>>
    /\ implError = ""
    /\ uafWorker = FALSE
    /\ uafClosure = FALSE
    /\ assertFailed = FALSE
    /\ ubFclose = FALSE

(***************************************************************************)
(* Closures and handler invocations                                        *)
(***************************************************************************)
Closure(k, id, code, native, url, path, total, now) ==
    [k |-> k, id |-> id, code |-> code, native |-> native, url |-> url,
     path |-> path, total |-> total, now |-> now]

Invocation(h, thread, c) ==
    [h |-> h, thread |-> thread, id |-> c.id, code |-> c.code, native |-> c.native,
     url |-> c.url, path |-> c.path, total |-> c.total, now |-> c.now]

\* Downloader::notifyError(code, msg, customId, curle_code, curlm_code): the closure
notifyError(code, id, native) == Closure("error", id, code, native, "", <<>>, 0, 0)

\* user handlers a closure (or an inline report) ends up calling, in order
\* reportDownloadFinished / reportProgressFinished / reportProgressInProgress
reportDownloadFinished(thread, c) == <<Invocation("success", thread, c)>>

reportProgressInProgress(thread, c) == <<Invocation("progress", thread, c)>>

\* (variant: a finished unit is signalled through the progress handler alone)
reportProgressFinished_ProgressOnly(thread, c) == <<Invocation("progress", thread, c)>>

reportProgressFinished(thread, c) ==
    <<Invocation("progress", thread, c)>> \o reportDownloadFinished(thread, c)

Handlers(thread, c) ==
    CASE c.k = "error" -> <<Invocation("error", thread, c)>>
      [] c.k = "progress" -> <<Invocation("progress", thread, c)>>
      [] c.k = "batchInProgress" -> reportProgressInProgress(thread, c)
      [] c.k = "batchFinished" -> reportProgressFinished(thread, c)
      [] c.k = "success" -> reportDownloadFinished(thread, c)
      [] c.k = "batchComplete" -> <<Invocation("success", thread, c)>>

(***************************************************************************)
(* Process-wide outcomes                                                   *)
(***************************************************************************)
Running == pc # "crashed"

\* the process dies: nothing else changes any more
Crash ==
    /\ pc' = "crashed"
    /\ UNCHANGED <<dlVars, op, units, data, res, steps, loopVars,
                   envVars, opens, renamed, handed, acct, stores, calls, round, batches, singles, writes, implError, uafClosure,
                   assertFailed, ubFclose>>

\* A step of the calling thread that goes through `this`.  On a Downloader that is
\* already destroyed this is undefined: the process crashes or goes on with the
\* stale object.
Member(N) ==
    \/ /\ ~destroyed
       /\ N
       /\ UNCHANGED uafWorker
    \/ /\ destroyed
       /\ uafWorker' = TRUE
       /\ (N \/ Crash)

(***************************************************************************)
(* Downloader::prepareDownload                                             *)
(***************************************************************************)
\* (variant: a temp file that exists is always continued)
OpenMode_AppendIfExists(supp, resumeDownload, exists) ==
    IF exists THEN "ab" ELSE "wb"

\* (variant: the resume probe of the batch is not consulted)
OpenMode_IgnoreProbe(supp, resumeDownload, exists) ==
    IF resumeDownload /\ exists THEN "ab" ELSE "wb"

OpenMode(supp, resumeDownload, exists) ==
    IF supp /\ resumeDownload /\ exists THEN "ab" ELSE "wb"

\* result: the tracker, the handle, the file system, the errors handed to _onError
\* inline, and the fopen calls made
prepareDownload(srcUrl, storagePath, customId, resumeDownload, pData, f, supp, noOpen) ==
    LET found == FindLastOf(storagePath)
        p1 == [pData EXCEPT !.customId = customId, !.url = srcUrl,
                            !.downloaded = 0, !.totalToDownload = 0]
    IN  IF found = 0
        THEN [pData |-> p1, fp |-> NullFP, fs |-> f, errs |-> <<"INVALID_URL">>,
              opens |-> {}]
        ELSE LET p2 == [p1 EXCEPT !.name = Substr(storagePath, found + 1, Len(storagePath)),
                                  !.path = Substr(storagePath, 1, found)]
                 outFileName == Append(storagePath, TEMP_EXT)
                 existed == isFileExist(f, outFileName)
                 fopenOk == outFileName \notin noOpen
                 mode == OpenMode(supp, resumeDownload, existed)
                 o == [id |-> customId, file |-> outFileName, final |-> storagePath,
                       mode |-> mode, resume |-> resumeDownload,
                       existed |-> existed, supp |-> supp, ok |-> fopenOk,
                       old |-> IF existed THEN f[outFileName] ELSE <<>>]
             IN  IF fopenOk
                 THEN [pData |-> p2, fp |-> [file |-> outFileName, mode |-> mode],
                       fs |-> fopenFile(f, outFileName, mode), errs |-> <<>>,
                       opens |-> {o}]
                 ELSE [pData |-> p2, fp |-> NullFP, fs |-> f,
                       errs |-> <<"CREATE_FILE">>, opens |-> {o}]

\* the direct _onError(err) calls of prepareDownload, made on the calling thread
InlineErrors(thread, id, errs) ==
    [k \in 1..Len(errs) |-> Invocation("error", thread, notifyError(errs[k], id, 0))]

Unit(srcUrl, storagePath, customId, resumeDownload, fp) ==
    [srcUrl |-> srcUrl, storagePath |-> storagePath, customId |-> customId,
     resumeDownload |-> resumeDownload, fp |-> fp]

(***************************************************************************)
(* Callbacks the engine calls back into                                    *)
(***************************************************************************)
\* Downloader::fileWriteFunc, past its assertions: fwrite on the unit's handle
fileWriteFunc(f, unit, bytes) == fwrite(f, unit.fp, bytes)

\* both progress callbacks: bytesTotal is taken from the first callback that has one
\* a progress callback of the engine: its arguments and what the tracker held
ProgressCall(pd, totalToDownload, nowDownloaded) ==
    [id |-> pd.customId, url |-> pd.url, total |-> totalToDownload,
     now |-> nowDownloaded, stored |-> pd.downloaded, known |-> pd.totalToDownload]

\* (variant: every progress callback overwrites the stored total)
TrackTotal_Always(pd, totalToDownload) == [pd EXCEPT !.totalToDownload = totalToDownload]

TrackTotal(pd, totalToDownload) ==
    IF pd.totalToDownload = 0 THEN [pd EXCEPT !.totalToDownload = totalToDownload]
    ELSE pd

\* (variant: the closure carries the total the tracker holds)
downloadProgressFunc_TrackerTotal(pd, totalToDownload, nowDownloaded) ==
    LET p1 == TrackTotal(pd, totalToDownload)
    IN  IF p1.downloaded # nowDownloaded
        THEN [pd |-> [p1 EXCEPT !.downloaded = nowDownloaded],
              closures |-> <<Closure("progress", p1.customId, "", 0, p1.url, <<>>,
                                     p1.totalToDownload, nowDownloaded)>>]
        ELSE [pd |-> p1, closures |-> <<>>]

\* Downloader::downloadProgressFunc: the tracker and the closures it schedules
downloadProgressFunc(pd, totalToDownload, nowDownloaded) ==
    LET p1 == TrackTotal(pd, totalToDownload)
    IN  IF p1.downloaded # nowDownloaded
        THEN [pd |-> [p1 EXCEPT !.downloaded = nowDownloaded],
              closures |-> <<Closure("progress", p1.customId, "", 0, p1.url, <<>>,
                                     totalToDownload, nowDownloaded)>>]
        ELSE [pd |-> p1, closures |-> <<>>]

(***************************************************************************)
(* Single transfer to a file: downloadSync, downloadAsync, downloadToFP    *)
(***************************************************************************)
StartFile(thread, t) ==
    /\ pc = "idle"
    /\ callerRef
    /\ op' = [NoOp EXCEPT !.kind = "file", !.thread = thread, !.url = UnitUrls[1],
                          !.id = UnitIds[1],
                          !.path = IF t.bad = 1 THEN BadPath(1) ELSE GoodPath(1),
                          !.noOpen = {TempPath(i) : i \in {t.lock} \ {0}}]
    /\ pc' = "prepare"
    /\ UNCHANGED <<dlVars, units, data, res, steps, loopVars, envVars, histVars>>

downloadSync == \E t \in Troubles(1) : StartFile(CocosThread, t)

\* the detached thread holds the bare `this`
downloadAsync == \E t \in Troubles(1) : StartFile(WorkerThread, t)

\* downloadToFP up to the engine call: prepareDownload, the unit, init(srcUrl)
DownloadToFP_Prepare ==
    /\ pc = "prepare"
    /\ op.kind = "file"
    /\ Member(
        LET r == prepareDownload(op.url, op.path, op.id, FALSE, EmptyProgressData,
                                 fs, supportResuming, op.noOpen)
        IN  /\ data' = r.pData
            /\ units' = <<Unit(op.url, op.path, op.id, FALSE, r.fp)>>
            /\ fs' = r.fs
            /\ log' = log \o InlineErrors(op.thread, op.id, r.errs)
            /\ opens' = opens \cup r.opens
            /\ implUrl' = op.url
            /\ steps' = 0
            /\ pc' = "perform"
            /\ UNCHANGED <<destroyed, callerRef, workerRef, supportResuming, progDatas,
                           op, res, loopVars, queue, mainPc, renamed, handed,
                           acct, stores, calls, round, batches, singles, writes, implError, uafClosure, assertFailed, ubFclose>>)

\* performDownload calls the write callback with one more byte of the body
PerformDownload_FileWrite ==
    /\ pc = "perform"
    /\ op.kind = "file"
    /\ steps < MaxEngineSteps
    /\ Member(
        IF units[1].fp = NullFP
        THEN \* CC_ASSERT(fp) fails; without assertions fwrite gets a null stream
             /\ assertFailed' = TRUE
             /\ \/ /\ pc' = "crashed"
                   /\ UNCHANGED res
                \/ /\ pc' = "finish"
                   /\ res' = CURLE_WRITE_ERROR
             /\ UNCHANGED <<dlVars, op, units, data, steps, loopVars, envVars,
                            opens, renamed, handed, acct, stores, calls, round, batches, singles, writes, implError, uafClosure, ubFclose>>
        ELSE /\ fs' = fileWriteFunc(fs, units[1], <<round>>)
             /\ steps' = steps + 1
             /\ UNCHANGED <<dlVars, op, pc, units, data, res, loopVars, queue,
                            mainPc, log, opens, renamed, handed, acct, stores, calls, round, batches, singles, writes, implError,
                            uafClosure, assertFailed, ubFclose>>)

\* performDownload calls the progress callback
PerformDownload_Progress ==
    /\ pc = "perform"
    /\ op.kind \in {"file", "buffer"}
    /\ steps < MaxEngineSteps
    /\ Member(\E totalToDownload \in 0..MaxBytes, nowDownloaded \in 0..MaxBytes :
        LET r == downloadProgressFunc(data, totalToDownload, nowDownloaded)
        IN  /\ data' = r.pd
            /\ calls' = Append(calls, ProgressCall(data, totalToDownload, nowDownloaded))
            /\ queue' = queue \o r.closures
            /\ steps' = steps + 1
            /\ UNCHANGED <<dlVars, op, pc, units, res, loopVars, fs, mainPc, log, round, batches, singles, writes, implError,
                           opens, renamed, handed, acct, stores, uafClosure,
                           assertFailed, ubFclose>>)

\* performDownload returns: the transfer went through or the engine gave up
PerformDownload_Return ==
    /\ pc = "perform"
    /\ op.kind \in {"file", "buffer"}
    /\ Member(\E r \in {CURLE_OK, CURLE_COULDNT_CONNECT} :
        /\ res' = r
        /\ pc' = "finish"
        /\ UNCHANGED <<dlVars, op, units, data, steps, loopVars, envVars,
                       opens, renamed, handed, acct, stores, calls, round, batches, singles, writes, implError, uafClosure, assertFailed,
                       ubFclose>>)

\* (variant: the success report goes through the scheduler on every thread)
SuccessReport_AlwaysMarshal(thread, c) == [closures |-> <<c>>, inline |-> <<>>]

\* (variant: the success report is made at once by the thread that ran the transfer)
SuccessReport_AlwaysInline(thread, c) ==
    [closures |-> <<>>, inline |-> reportDownloadFinished(thread, c)]

\* the success report of a single transfer: a closure off the owning thread, inline on it
SuccessReport(thread, c) ==
    IF thread # CocosThread
    THEN [closures |-> <<c>>, inline |-> <<>>]
    ELSE [closures |-> <<>>, inline |-> reportDownloadFinished(thread, c)]

\* the file the single path removes and renames: data.path + data.name + TEMP_EXT
TempOf(pd) == pd.path \o pd.name \o <<TEMP_EXT>>

RenameRecord(pd, single, r) ==
    [id |-> pd.customId, downloaded |-> pd.downloaded, total |-> pd.totalToDownload,
     file |-> pd.path \o pd.name, single |-> single, res |-> r]

\* downloadToFP after the engine call
DownloadToFP_Finish ==
    /\ pc = "finish"
    /\ op.kind = "file"
    /\ Member(
        LET failed == res # 0
            fs1 == IF failed THEN removeFile(fs, TempOf(data)) ELSE fs
            q1 == IF failed
                  THEN Append(queue, notifyError("CURL_EASY_ERROR", op.id, res))
                  ELSE queue
            moved == renameOk(fs1, data.path, data.name \o <<TEMP_EXT>>, data.name)
            fs2 == IF failed THEN fs1
                   ELSE renameFile(fs1, data.path, data.name \o <<TEMP_EXT>>, data.name)
            rep == SuccessReport(op.thread,
                       Closure("success", data.customId, "", 0, data.url,
                               data.path \o data.name, 0, 0))
        IN  /\ ubFclose' = (ubFclose \/ units[1].fp = NullFP)
            /\ \/ \* fclose(fp) returns
                  /\ fs' = fs2
                  /\ queue' = IF failed THEN q1 ELSE q1 \o rep.closures
                  /\ log' = IF failed THEN log ELSE log \o rep.inline
                  /\ renamed' = IF ~failed /\ moved
                                THEN renamed \cup {RenameRecord(data, TRUE, res)}
                                ELSE renamed
                  /\ pc' = "done"
               \/ \* fclose(nullptr) brings the process down
                  /\ units[1].fp = NullFP
                  /\ fs' = fs1
                  /\ queue' = q1
                  /\ pc' = "crashed"
                  /\ UNCHANGED <<log, renamed>>
            /\ UNCHANGED <<dlVars, op, units, data, res, steps, loopVars, mainPc,
                           opens, handed, acct, stores, calls, round, batches, singles, writes, implError, uafClosure, assertFailed>>)

(***************************************************************************)
(* Single transfer to a buffer: downloadToBufferSync/Async, downloadToBuffer *)
(***************************************************************************)
\* chunk sizes the engine hands to the write callback
ChunkSizes == 1..(MaxCap + 1)

\* downloadToBuffer stores the caller's buffer itself in unit.fp, and bufferWriteFunc
\* reads unit.fp as a StreamData: the three fields it sees are whatever the caller's
\* memory holds there, not the local streamBuffer
StreamViews ==
    [buffer : {"buffer", "wild"}, total : 0..(MaxCap + 1), offset : 0..(MaxCap + 1)]

\* Downloader::bufferWriteFunc on the StreamData it sees: bytes returned, and the
\* places memcpy stores to
bufferWriteFunc(view, written) ==
    IF view.offset + written <= view.total
    THEN [ret |-> written,
          stores |-> {<<view.buffer, view.offset + k>> : k \in 0..(written - 1)}]
    ELSE [ret |-> 0, stores |-> {}]

\* a call of bufferWriteFunc: the StreamData it read through unit.fp, the size of
\* the chunk and the value it returned
WriteCall(view, written, ret) ==
    [buffer |-> view.buffer, total |-> view.total, offset |-> view.offset,
     written |-> written, ret |-> ret]

StartBuffer(thread, isNull, size) ==
    /\ pc = "idle"
    /\ callerRef
    /\ op' = [NoOp EXCEPT !.kind = "buffer", !.thread = thread, !.url = UnitUrls[1],
                          !.id = UnitIds[1], !.cap = size]
    \* a null buffer: the entry point returns at once
    /\ pc' = IF isNull THEN "done" ELSE "prepare"
    /\ UNCHANGED <<dlVars, units, data, res, steps, loopVars, envVars, histVars>>

downloadToBufferSync ==
    \E isNull \in BOOLEAN, size \in 1..MaxCap : StartBuffer(CocosThread, isNull, size)

downloadToBufferAsync ==
    \E isNull \in BOOLEAN, size \in 1..MaxCap : StartBuffer(WorkerThread, isNull, size)

\* downloadToBuffer up to the engine call
DownloadToBuffer_Prepare ==
    /\ pc = "prepare"
    /\ op.kind = "buffer"
    /\ Member(
        /\ units' = <<Unit(op.url, <<>>, op.id, FALSE, [file |-> <<>>, mode |-> "buffer"])>>
        /\ data' = [EmptyProgressData EXCEPT !.customId = op.id, !.url = op.url]
        /\ streamBuffer' = [total |-> op.cap, offset |-> 0]
        /\ implUrl' = op.url
        /\ steps' = 0
        /\ pc' = "perform"
        /\ UNCHANGED <<destroyed, callerRef, workerRef, supportResuming, progDatas, op,
                       res, it, count, group, envVars, opens, renamed, handed, acct,
                       stores, calls, round, batches, singles, writes, implError, uafClosure, assertFailed, ubFclose>>)

\* performDownload calls the write callback with a chunk; a short return ends the
\* transfer with CURLE_WRITE_ERROR
PerformDownload_BufferWrite ==
    /\ pc = "perform"
    /\ op.kind = "buffer"
    /\ steps < MaxEngineSteps
    /\ Member(\E written \in ChunkSizes, view \in StreamViews :
        LET r == bufferWriteFunc(view, written)
        IN  /\ stores' = stores \cup r.stores
            /\ writes' = Append(writes, WriteCall(view, written, r.ret))
            /\ IF r.ret = written
               THEN steps' = steps + 1 /\ UNCHANGED <<pc, res>>
               ELSE pc' = "finish" /\ res' = CURLE_WRITE_ERROR /\ UNCHANGED steps
            /\ UNCHANGED <<dlVars, op, units, data, loopVars, envVars, opens, renamed,
                           handed, acct, calls, round, batches, singles, implError,
                           uafClosure, assertFailed, ubFclose>>)

\* downloadToBuffer after the engine call
DownloadToBuffer_Finish ==
    /\ pc = "finish"
    /\ op.kind = "buffer"
    /\ Member(
        LET rep == SuccessReport(op.thread,
                       Closure("success", data.customId, "", 0, data.url, <<>>, 0, 0))
        IN  /\ IF res # 0
               THEN /\ queue' = Append(queue, notifyError("CURL_EASY_ERROR", op.id, res))
                    /\ UNCHANGED log
               ELSE /\ queue' = queue \o rep.closures
                    /\ log' = log \o rep.inline
            /\ pc' = "done"
            /\ UNCHANGED <<dlVars, op, units, data, res, steps, loopVars, fs, mainPc,
                           histVars>>)

(***************************************************************************)
(* Batch transfer: batchDownloadSync/Async, groupBatchDownload             *)
(***************************************************************************)
\* the units of a batch, in the iteration order of the caller's map
BatchUnits(n, bad, resumes) ==
    [i \in 1..n |-> Unit(UnitUrls[i], IF i = bad THEN BadPath(i) ELSE GoodPath(i),
                         UnitIds[i], i \in resumes, NullFP)]

StartBatch(thread) ==
    /\ pc = "idle"
    /\ callerRef
    /\ \E n \in 0..MaxUnits, resumes \in {{}, {1, 2}} : \E t \in Troubles(n) :
        op' = [NoOp EXCEPT !.kind = "batch", !.thread = thread, !.batchId = "b",
                           !.units = BatchUnits(n, t.bad, resumes),
                           !.noOpen = {TempPath(i) : i \in {t.lock} \ {0}}]
    /\ pc' = "batchStart"
    /\ UNCHANGED <<dlVars, units, data, res, steps, loopVars, envVars, histVars>>

batchDownloadAsync == StartBatch(WorkerThread)

batchDownloadSync == StartBatch(CocosThread)

\* (variant: the resume probe is made for a batch without units as well)
BatchDownloadSync_Start_ProbesEmpty ==
    /\ pc = "batchStart"
    /\ Member(
        /\ workerRef' = ~destroyed
        /\ \E supportsResume \in BOOLEAN : supportResuming' = supportsResume
        /\ IF Len(op.units) # 0
           THEN /\ implUrl' = op.units[1].srcUrl
                /\ IF Len(op.units) >= FOPEN_MAX
                   THEN /\ pc' = "loop"
                        /\ it' = 1
                        /\ count' = 0
                        /\ group' = <<>>
                        /\ UNCHANGED units
                   ELSE /\ pc' = "group"
                        /\ units' = op.units
                        /\ UNCHANGED <<it, count, group>>
           ELSE /\ pc' = "batchEnd"
                /\ UNCHANGED <<implUrl, units, it, count, group>>
        /\ UNCHANGED <<destroyed, callerRef, progDatas, op, data, res, steps,
                       streamBuffer, envVars, opens, renamed, handed, acct, stores,
                       calls, round, batches, singles, writes, implError,
                       uafClosure, assertFailed, ubFclose>>)

\* batchDownloadSync: the local strong reference, init on the first url, the resume
\* probe, and the choice between one group and the splitting loop
BatchDownloadSync_Start ==
    /\ pc = "batchStart"
    /\ Member(
        /\ workerRef' = ~destroyed
        /\ IF Len(op.units) # 0
           THEN /\ implUrl' = op.units[1].srcUrl
                /\ \E supportsResume \in BOOLEAN : supportResuming' = supportsResume
                /\ IF Len(op.units) >= FOPEN_MAX
                   THEN /\ pc' = "loop"
                        /\ it' = 1
                        /\ count' = 0
                        /\ group' = <<>>
                        /\ UNCHANGED units
                   ELSE /\ pc' = "group"
                        /\ units' = op.units
                        /\ UNCHANGED <<it, count, group>>
           ELSE /\ pc' = "batchEnd"
                /\ UNCHANGED <<implUrl, supportResuming, units, it, count, group>>
        /\ UNCHANGED <<destroyed, callerRef, progDatas, op, data, res, steps,
                       streamBuffer, envVars, opens, renamed, handed, acct, stores, calls, round, batches, singles, writes, implError,
                       uafClosure, assertFailed, ubFclose>>)

\* (variant: the group is handed over one unit too late)
RECURSIVE ForLoop_LateFlush(_, _, _, _)
ForLoop_LateFlush(us, i, c, g) ==
    IF i <= Len(us)
    THEN IF c = FOPEN_MAX + 1
         THEN [it |-> i, count |-> c, group |-> g, call |-> TRUE]
         ELSE ForLoop_LateFlush(us, i + 1, c + 1, Append(g, us[i]))
    ELSE [it |-> i, count |-> c, group |-> g, call |-> Len(g) > 0]

\* The for statement of batchDownloadSync from iterator position i on, up to the
\* next call of groupBatchDownload (call = TRUE) or, with an empty last group, to
\* the end of the splitting branch
RECURSIVE ForLoop(_, _, _, _)
ForLoop(us, i, c, g) ==
    IF i <= Len(us)
    THEN IF c = FOPEN_MAX
         THEN [it |-> i, count |-> c, group |-> g, call |-> TRUE]
         ELSE ForLoop(us, i + 1, c + 1, Append(g, us[i]))
    ELSE [it |-> i, count |-> c, group |-> g, call |-> Len(g) > 0]

\* batchDownloadSync runs its loop up to the next groupBatchDownload(group); coming
\* back from a call made inside the loop it first does group.clear(), count = 0 and
\* the rest of that pass
BatchDownloadSync_Loop ==
    /\ pc \in {"loop", "resume"}
    /\ Member(
        LET r == IF pc = "resume"
                 THEN ForLoop(op.units, it + 1, 1, <<op.units[it]>>)
                 ELSE ForLoop(op.units, it, count, group)
        IN  /\ it' = r.it
            /\ count' = r.count
            /\ group' = r.group
            /\ IF r.call
               THEN units' = r.group /\ pc' = "group"
               ELSE pc' = "batchEnd" /\ UNCHANGED units
            /\ UNCHANGED <<dlVars, op, data, res, steps, streamBuffer, envVars, opens,
                           renamed, handed, acct, stores, calls, round, batches, singles, writes, implError, uafClosure, assertFailed,
                           ubFclose>>)

\* the prepareDownload loop of groupBatchDownload over units i..Len(us)
RECURSIVE PrepareGroup(_, _, _, _, _, _, _)
PrepareGroup(us, pds, f, supp, noOpen, thread, i) ==
    IF i > Len(us)
    THEN [units |-> us, progDatas |-> pds, fs |-> f, log |-> <<>>, opens |-> {}]
    ELSE LET u == us[i]
             r == prepareDownload(u.srcUrl, u.storagePath, u.customId, u.resumeDownload,
                                  pds[i], f, supp, noOpen)
             rest == PrepareGroup([us EXCEPT ![i].fp = r.fp],
                                  [pds EXCEPT ![i] = r.pData], r.fs, supp, noOpen,
                                  thread, i + 1)
         IN  [rest EXCEPT !.log = InlineErrors(thread, u.customId, r.errs) \o @,
                          !.opens = r.opens \cup @]

\* groupBatchDownload up to the engine call
GroupBatchDownload_Prepare ==
    /\ pc = "group"
    /\ Member(
        IF Len(progDatas) # 0
        THEN \* CC_ASSERT(_progDatas.size() == 0)
             /\ assertFailed' = TRUE
             /\ pc' = "crashed"
             /\ UNCHANGED <<dlVars, op, units, data, res, steps, loopVars, envVars,
                            opens, renamed, handed, acct, stores, calls, round, batches, singles, writes, implError, uafClosure, ubFclose>>
        ELSE LET r == PrepareGroup(units, [i \in 1..Len(units) |-> EmptyProgressData],
                                   fs, supportResuming, op.noOpen, op.thread, 1)
             IN  /\ units' = r.units
                 /\ progDatas' = r.progDatas
                 /\ fs' = r.fs
                 /\ log' = log \o r.log
                 /\ opens' = opens \cup r.opens
                 /\ handed' = Append(handed, [i \in 1..Len(units) |-> units[i].customId])
                 /\ pc' = "batchPerform"
                 /\ UNCHANGED <<destroyed, callerRef, workerRef, supportResuming,
                                implUrl, op, data, res, steps, loopVars, queue, mainPc,
                                renamed, acct, stores, calls, round, batches, singles, writes, implError, uafClosure, assertFailed,
                                ubFclose>>)

\* Downloader::batchDownloadProgressFunc: the tracker, the closures it schedules off
\* the owning thread and the handlers it calls inline on it
\* (variant: the notification is marshaled whichever thread runs the callback)
batchDownloadProgressFunc_AlwaysMarshal(pd, totalToDownload, nowDownloaded, thread) ==
    LET p1 == TrackTotal(pd, totalToDownload)
        p2 == [p1 EXCEPT !.downloaded = nowDownloaded]
        c == Closure(IF nowDownloaded = totalToDownload THEN "batchFinished"
                     ELSE "batchInProgress",
                     p2.customId, "", 0, p2.url, p2.path \o p2.name,
                     totalToDownload, nowDownloaded)
    IN  IF p1.downloaded # nowDownloaded
        THEN [pd |-> p2, closures |-> <<c>>, inline |-> <<>>]
        ELSE [pd |-> p1, closures |-> <<>>, inline |-> <<>>]

batchDownloadProgressFunc(pd, totalToDownload, nowDownloaded, thread) ==
    LET p1 == TrackTotal(pd, totalToDownload)
        p2 == [p1 EXCEPT !.downloaded = nowDownloaded]
        c == Closure(IF nowDownloaded = totalToDownload THEN "batchFinished"
                     ELSE "batchInProgress",
                     p2.customId, "", 0, p2.url, p2.path \o p2.name,
                     totalToDownload, nowDownloaded)
    IN  IF p1.downloaded # nowDownloaded
        THEN IF thread # CocosThread
             THEN [pd |-> p2, closures |-> <<c>>, inline |-> <<>>]
             ELSE [pd |-> p2, closures |-> <<>>, inline |-> Handlers(thread, c)]
        ELSE [pd |-> p1, closures |-> <<>>, inline |-> <<>>]

\* the units performBatchDownload transfers: those whose destination is open
Transferring == {i \in 1..Len(units) : units[i].fp # NullFP}

PerformBatchDownload_Write ==
    /\ pc = "batchPerform"
    /\ steps < MaxEngineSteps
    /\ Member(\E i \in Transferring :
        /\ fs' = fileWriteFunc(fs, units[i], <<round>>)
        /\ steps' = steps + 1
        /\ UNCHANGED <<dlVars, op, pc, units, data, res, loopVars, queue, mainPc, log,
                       opens, renamed, handed, acct, stores, calls, round, batches, singles, writes, implError, uafClosure, assertFailed,
                       ubFclose>>)

PerformBatchDownload_Progress ==
    /\ pc = "batchPerform"
    /\ steps < MaxEngineSteps
    /\ Member(\E i \in Transferring :
              \E totalToDownload \in 0..MaxBytes, nowDownloaded \in 0..MaxBytes :
        LET r == batchDownloadProgressFunc(progDatas[i], totalToDownload,
                                           nowDownloaded, op.thread)
        IN  /\ progDatas' = [progDatas EXCEPT ![i] = r.pd]
            /\ calls' = Append(calls, ProgressCall(progDatas[i], totalToDownload,
                                                   nowDownloaded))
            /\ queue' = queue \o r.closures
            /\ log' = log \o r.inline
            /\ steps' = steps + 1
            /\ UNCHANGED <<destroyed, callerRef, workerRef, supportResuming, implUrl,
                           op, pc, units, data, res, loopVars, fs, mainPc, opens, round, batches, singles, writes, implError,
                           renamed, handed, acct, stores, uafClosure, assertFailed,
                           ubFclose>>)

\* the engine reports a multi-interface error for a unit through errorCallback
PerformBatchDownload_Error ==
    /\ pc = "batchPerform"
    /\ steps < MaxEngineSteps
    /\ Member(\E i \in Transferring :
        /\ queue' = Append(queue, notifyError("CURL_MULTI_ERROR", units[i].customId, 0))
        /\ steps' = steps + 1
        /\ UNCHANGED <<dlVars, op, pc, units, data, res, loopVars, fs, mainPc, log,
                       histVars>>)

PerformBatchDownload_Return ==
    /\ pc = "batchPerform"
    /\ Member(
        /\ pc' = "account"
        /\ UNCHANGED <<dlVars, op, units, data, res, steps, loopVars, envVars, opens,
                       renamed, handed, acct, stores, calls, round, batches, singles, writes, implError, uafClosure, assertFailed,
                       ubFclose>>)

\* what the accounting loop did with a tracker, and what the tracker held then
AcctRecord(pd, outcome) ==
    [id |-> pd.customId, outcome |-> outcome, downloaded |-> pd.downloaded,
     total |-> pd.totalToDownload]

\* (variant: a tracker whose total is still unknown counts as finished)
Unfinished_NoZeroTest(pd) == pd.downloaded < pd.totalToDownload

\* (variant: only a tracker whose total is unknown counts as failed)
Unfinished_OnlyZeroTest(pd) == pd.totalToDownload = 0

\* a tracker the per-group accounting reports as failed
Unfinished(pd) == pd.downloaded < pd.totalToDownload \/ pd.totalToDownload = 0

\* (variant: the accounting loop ends at the first failed tracker)
RECURSIVE Account_StopAtFailure(_, _, _)
Account_StopAtFailure(pds, f, i) ==
    IF i > Len(pds)
    THEN [fs |-> f, closures |-> <<>>, acct |-> <<>>, renamed |-> {}]
    ELSE LET pd == pds[i]
             moved == renameOk(f, pd.path, pd.name \o <<TEMP_EXT>>, pd.name)
             rest == Account_StopAtFailure(
                         pds, renameFile(f, pd.path, pd.name \o <<TEMP_EXT>>, pd.name),
                         i + 1)
         IN  IF Unfinished(pd)
             THEN [fs |-> f, closures |-> <<notifyError("NETWORK", pd.customId, 0)>>,
                   acct |-> <<AcctRecord(pd, "error")>>,
                   renamed |-> {}]
             ELSE [rest EXCEPT
                     !.acct = <<AcctRecord(pd, "rename")>> \o @,
                     !.renamed = IF moved THEN {RenameRecord(pd, FALSE, 0)} \cup @
                                 ELSE @]

\* (variant: the accounting loop deletes the temp file of a failed tracker)
RECURSIVE Account_RemoveOnFailure(_, _, _)
Account_RemoveOnFailure(pds, f, i) ==
    IF i > Len(pds)
    THEN [fs |-> f, closures |-> <<>>, acct |-> <<>>, renamed |-> {}]
    ELSE LET pd == pds[i]
             moved == renameOk(f, pd.path, pd.name \o <<TEMP_EXT>>, pd.name)
             f1 == IF Unfinished(pd) THEN removeFile(f, TempOf(pd))
                   ELSE renameFile(f, pd.path, pd.name \o <<TEMP_EXT>>, pd.name)
             rest == Account_RemoveOnFailure(pds, f1, i + 1)
         IN  IF Unfinished(pd)
             THEN [rest EXCEPT
                     !.closures = <<notifyError("NETWORK", pd.customId, 0)>> \o @,
                     !.acct = <<AcctRecord(pd, "error")>> \o @]
             ELSE [rest EXCEPT
                     !.acct = <<AcctRecord(pd, "rename")>> \o @,
                     !.renamed = IF moved THEN {RenameRecord(pd, FALSE, 0)} \cup @
                                 ELSE @]

\* the accounting loop of groupBatchDownload over trackers i..Len(pds)
RECURSIVE Account(_, _, _)
Account(pds, f, i) ==
    IF i > Len(pds)
    THEN [fs |-> f, closures |-> <<>>, acct |-> <<>>, renamed |-> {}]
    ELSE LET pd == pds[i]
             moved == renameOk(f, pd.path, pd.name \o <<TEMP_EXT>>, pd.name)
             f1 == IF Unfinished(pd) THEN f
                   ELSE renameFile(f, pd.path, pd.name \o <<TEMP_EXT>>, pd.name)
             rest == Account(pds, f1, i + 1)
         IN  IF Unfinished(pd)
             THEN [rest EXCEPT
                     !.closures = <<notifyError("NETWORK", pd.customId, 0)>> \o @,
                     !.acct = <<AcctRecord(pd, "error")>> \o @]
             ELSE [rest EXCEPT
                     !.acct = <<AcctRecord(pd, "rename")>> \o @,
                     !.renamed = IF moved THEN {RenameRecord(pd, FALSE, 0)} \cup @
                                 ELSE @]

\* (variant: the closing loop ends after the first unit)
CloseHandles_FirstOnly(us) ==
    [i \in 1..Len(us) |-> IF i = 1 THEN [us[i] EXCEPT !.fp = NullFP] ELSE us[i]]

\* the closing loop of groupBatchDownload: fclose of every handle that is open
CloseHandles(us) ==
    [i \in 1..Len(us) |->
        IF us[i].fp # NullFP THEN [us[i] EXCEPT !.fp = NullFP] ELSE us[i]]

\* (variant: the resume flag is reset when a group ends)
GroupBatchDownload_Finish_ResetsFlag ==
    /\ pc = "account"
    /\ Member(
        LET r == Account(progDatas, fs, 1)
            inLoop == Len(op.units) >= FOPEN_MAX /\ it <= Len(op.units)
        IN  /\ fs' = r.fs
            /\ queue' = queue \o r.closures
            /\ acct' = acct \o r.acct
            /\ renamed' = renamed \cup r.renamed
            /\ units' = CloseHandles(units)
            /\ progDatas' = <<>>
            /\ supportResuming' = FALSE
            /\ pc' = IF inLoop THEN "resume" ELSE "batchEnd"
            /\ UNCHANGED <<destroyed, callerRef, workerRef, implUrl,
                           op, data, res, steps, loopVars, mainPc, log, opens, handed,
                           stores, calls, round, batches, singles, writes, implError, uafClosure, assertFailed, ubFclose>>)

\* groupBatchDownload after the engine call: accounting, fclose of every open
\* handle, clearBatchDownloadData; then back into batchDownloadSync
GroupBatchDownload_Finish ==
    /\ pc = "account"
    /\ Member(
        LET r == Account(progDatas, fs, 1)
            inLoop == Len(op.units) >= FOPEN_MAX /\ it <= Len(op.units)
        IN  /\ fs' = r.fs
            /\ queue' = queue \o r.closures
            /\ acct' = acct \o r.acct
            /\ renamed' = renamed \cup r.renamed
            /\ units' = CloseHandles(units)
            /\ progDatas' = <<>>
            /\ pc' = IF inLoop THEN "resume" ELSE "batchEnd"
            /\ UNCHANGED <<destroyed, callerRef, workerRef, supportResuming, implUrl,
                           op, data, res, steps, loopVars, mainPc, log, opens, handed,
                           stores, calls, round, batches, singles, writes, implError, uafClosure, assertFailed, ubFclose>>)

\* (variant: the resume flag outlives the batch)
BatchDownloadSync_End_KeepsFlag ==
    /\ pc = "batchEnd"
    /\ Member(
        /\ queue' = Append(queue, Closure("batchComplete", op.batchId, "", 0, "", <<>>,
                                          0, 0))
        /\ workerRef' = FALSE
        /\ destroyed' = (destroyed \/ (workerRef /\ ~callerRef))
        /\ pc' = "done"
        /\ UNCHANGED <<callerRef, supportResuming, progDatas, implUrl, op, units, data,
                       res, steps, loopVars, fs, mainPc, log, opens, renamed, handed,
                       acct, stores, calls, round, batches, singles, writes, implError, uafClosure, assertFailed, ubFclose>>)

\* (variant: on the owning thread the batch-complete call is made at once)
BatchDownloadSync_End_InlineOnOwner ==
    /\ pc = "batchEnd"
    /\ Member(
        LET c == Closure("batchComplete", op.batchId, "", 0, "", <<>>, 0, 0)
        IN  /\ queue' = IF op.thread = CocosThread THEN queue ELSE Append(queue, c)
            /\ log' = IF op.thread = CocosThread
                      THEN log \o Handlers(CocosThread, c) ELSE log
            /\ supportResuming' = FALSE
            /\ workerRef' = FALSE
            /\ destroyed' = (destroyed \/ (workerRef /\ ~callerRef))
            /\ pc' = "done"
            /\ UNCHANGED <<callerRef, progDatas, implUrl, op, units, data, res, steps,
                           loopVars, fs, mainPc, opens, renamed, handed, acct, stores,
                           calls, round, batches, singles, writes, implError, uafClosure, assertFailed, ubFclose>>)

\* the end of batchDownloadSync: the batch-complete closure, the resume flag, and
\* the release of the local strong reference
BatchDownloadSync_End ==
    /\ pc = "batchEnd"
    /\ Member(
        /\ queue' = Append(queue, Closure("batchComplete", op.batchId, "", 0, "", <<>>,
                                          0, 0))
        /\ supportResuming' = FALSE
        /\ workerRef' = FALSE
        /\ destroyed' = (destroyed \/ (workerRef /\ ~callerRef))
        /\ pc' = "done"
        /\ UNCHANGED <<callerRef, progDatas, implUrl, op, units, data, res, steps,
                       loopVars, fs, mainPc, log, opens, renamed, handed, acct, stores, calls, round, batches, singles, writes, implError,
                       uafClosure, assertFailed, ubFclose>>)

(***************************************************************************)
(* The owning thread                                                       *)
(***************************************************************************)
\* the owning thread is neither inside a Sync call nor inside a closure
MainIdle ==
    /\ Running
    /\ mainPc = "idle"
    /\ ~(op.thread = CocosThread /\ pc \notin {"idle", "done"})

\* another thread holds the last strong reference: it can destroy the Downloader
\* while the owning thread is inside a closure
LastRefElsewhere == workerRef /\ ~callerRef

\* the scheduler runs the oldest closure: ptr.expired() is tested and, on a live
\* Downloader that no other thread can destroy meanwhile, the handlers are called
RunClosure ==
    /\ MainIdle
    /\ queue # <<>>
    /\ ~LastRefElsewhere
    /\ queue' = Tail(queue)
    /\ log' = IF destroyed THEN log ELSE log \o Handlers(CocosThread, Head(queue))
    /\ UNCHANGED <<dlVars, callVars, fs, mainPc, histVars>>

\* the same while another thread holds the last reference: first the test alone
RunClosure_Test ==
    /\ MainIdle
    /\ queue # <<>>
    /\ LastRefElsewhere
    /\ mainPc' = "act"
    /\ UNCHANGED <<dlVars, callVars, fs, queue, log, histVars>>

\* then the closure goes on past the test and calls the handlers; a Downloader destroyed
\* in between is used after its destruction (null or dangling pointer)
RunClosure_Act ==
    /\ Running
    /\ mainPc = "act"
    /\ mainPc' = "idle"
    /\ queue' = Tail(queue)
    /\ uafClosure' = (uafClosure \/ destroyed)
    /\ \/ /\ log' = log \o Handlers(CocosThread, Head(queue))
          /\ UNCHANGED pc
       \/ /\ destroyed
          /\ pc' = "crashed"
          /\ UNCHANGED log
    /\ UNCHANGED <<dlVars, op, units, data, res, steps, loopVars, fs,
                   opens, renamed, handed, acct, stores, calls, round, batches, singles, writes, implError, uafWorker, assertFailed,
                   ubFclose>>

\* the caller drops its shared_ptr; the Downloader dies with its last reference
Release ==
    /\ MainIdle
    /\ pc # "idle"
    /\ callerRef
    /\ callerRef' = FALSE
    /\ destroyed' = ~workerRef
    /\ UNCHANGED <<workerRef, supportResuming, progDatas, implUrl, callVars, envVars,
                   histVars>>

Next ==
    \/ downloadSync
    \/ downloadAsync
    \/ DownloadToFP_Prepare
    \/ PerformDownload_FileWrite
    \/ PerformDownload_Progress
    \/ PerformDownload_Return
    \/ DownloadToFP_Finish
    \/ downloadToBufferSync
    \/ downloadToBufferAsync
    \/ DownloadToBuffer_Prepare
    \/ PerformDownload_BufferWrite
    \/ DownloadToBuffer_Finish
    \/ batchDownloadSync
    \/ batchDownloadAsync
    \/ BatchDownloadSync_Start
    \/ BatchDownloadSync_Loop
    \/ GroupBatchDownload_Prepare
    \/ PerformBatchDownload_Write
    \/ PerformBatchDownload_Progress
    \/ PerformBatchDownload_Error
    \/ PerformBatchDownload_Return
    \/ GroupBatchDownload_Finish
    \/ BatchDownloadSync_End
    \/ RunClosure
    \/ RunClosure_Test
    \/ RunClosure_Act
    \/ Release

Spec == Init /\ [][Next]_vars

(***************************************************************************)
(* Calls one after the other on the same Downloader                        *)
(***************************************************************************)
\* The call in flight has returned and its closures have run; the caller makes
\* the next call.  The Downloader stays as the call left it, the disk is f, the
\* records kept about the call start afresh.
NextCallOn(f) ==
    /\ pc = "done"
    /\ queue = <<>>
    /\ mainPc = "idle"
    /\ callerRef
    /\ round < MaxCalls
    /\ round' = round + 1
    /\ op' = NoOp
    /\ pc' = "idle"
    /\ units' = <<>>
    /\ data' = EmptyProgressData
    /\ res' = 0
    /\ steps' = 0
    /\ it' = 1
    /\ count' = 0
    /\ group' = <<>>
    /\ streamBuffer' = [total |-> 0, offset |-> 0]
    /\ log' = <<>>
    /\ opens' = {}
    /\ renamed' = {}
    /\ handed' = <<>>
    /\ acct' = <<>>
    /\ stores' = {}
    /\ calls' = <<>>
    /\ writes' = <<>>
    /\ fs' = f
    /\ UNCHANGED <<dlVars, queue, mainPc, uafWorker, uafClosure, assertFailed,
                   ubFclose, batches, singles, implError>>

\* the next call finds the disk as the call before left it
NextCall == NextCallOn(fs)

\* the caller has put the download directory back into its first state before
\* the next batch
NextBatch == NextCallOn(LeftOver({1}))

\* downloadSync calls in sequence
FileSeqNext ==
    \/ downloadSync
    \/ DownloadToFP_Prepare
    \/ PerformDownload_FileWrite
    \/ PerformDownload_Progress
    \/ PerformDownload_Return
    \/ DownloadToFP_Finish
    \/ RunClosure
    \/ NextCall

SpecFileSeq == Init /\ [][FileSeqNext]_vars

\* batches in sequence, none overlapping another
BatchSeqNext ==
    \/ batchDownloadSync
    \/ batchDownloadAsync
    \/ BatchDownloadSync_Start
    \/ BatchDownloadSync_Loop
    \/ GroupBatchDownload_Prepare
    \/ PerformBatchDownload_Write
    \/ PerformBatchDownload_Progress
    \/ PerformBatchDownload_Error
    \/ PerformBatchDownload_Return
    \/ GroupBatchDownload_Finish
    \/ BatchDownloadSync_End
    \/ RunClosure
    \/ NextBatch

SpecBatchSeq == Init /\ [][BatchSeqNext]_vars

(***************************************************************************)
(* Two batches at once on the same Downloader: two threads run             *)
(* batchDownloadSync, each with one group.  groupBatchDownload is taken    *)
(* statement by statement, as no lock makes any part of it atomic.         *)
(***************************************************************************)
\* the units of the batch of thread t: as many as it was called with
OverlapUnits(t, n) == [i \in 1..n |-> UnitIds[i]]

\* std::vector::resize
Resize(pds, n) ==
    [i \in 1..n |-> IF i <= Len(pds) THEN pds[i] ELSE EmptyProgressData]

\* between the assertion and clearBatchDownloadData
UsingTrackers == {"resize", "prepare", "perform", "account"}

\* everything the two batches leave alone
overlapRest ==
    <<destroyed, callerRef, workerRef, implUrl, callVars, envVars, opens, renamed,
      handed, acct, stores, calls, round, singles, writes, implError, uafWorker,
      uafClosure, ubFclose>>

\* a failed CC_ASSERT or a wild access ends the process
OverlapCrash ==
    batches' = [t \in BatchThreads |-> [batches[t] EXCEPT !.pc = "crashed"]]

\* batchDownloadAsync(units, batchId) with n units, few enough for one group
Overlap_batchDownloadAsync(t) ==
    /\ batches[t].pc = "idle"
    /\ \E n \in 1..FOPEN_MAX :
        batches' = [batches EXCEPT ![t] = [pc |-> "start", n |-> n]]
    /\ UNCHANGED <<supportResuming, progDatas, assertFailed, overlapRest>>

\* batchDownloadSync: init with the first url, the resume probe
Overlap_Start(t) ==
    /\ batches[t].pc = "start"
    /\ \E supportsResume \in BOOLEAN : supportResuming' = supportsResume
    /\ batches' = [batches EXCEPT ![t].pc = "assert"]
    /\ UNCHANGED <<progDatas, assertFailed, overlapRest>>

\* groupBatchDownload: CC_ASSERT(_progDatas.size() == 0)
Overlap_Assert(t) ==
    /\ batches[t].pc = "assert"
    /\ IF Len(progDatas) = 0
       THEN /\ batches' = [batches EXCEPT ![t].pc = "resize"]
            /\ UNCHANGED assertFailed
       ELSE /\ assertFailed' = TRUE
            /\ OverlapCrash
    /\ UNCHANGED <<supportResuming, progDatas, overlapRest>>

\* groupBatchDownload: _progDatas.resize(units.size())
Overlap_Resize(t) ==
    /\ batches[t].pc = "resize"
    /\ progDatas' = Resize(progDatas, batches[t].n)
    /\ batches' = [batches EXCEPT ![t].pc = "prepare"]
    /\ UNCHANGED <<supportResuming, assertFailed, overlapRest>>

\* groupBatchDownload: prepareDownload(..., &_progDatas[i]) for every unit; an
\* index beyond the list the other batch has left is a wild write
Overlap_Prepare(t) ==
    /\ batches[t].pc = "prepare"
    /\ IF Len(progDatas) >= batches[t].n
       THEN /\ progDatas' =
                [i \in 1..Len(progDatas) |->
                    IF i <= batches[t].n
                    THEN [EmptyProgressData EXCEPT
                            !.customId = OverlapUnits(t, batches[t].n)[i],
                            !.url = UnitUrls[i]]
                    ELSE progDatas[i]]
            /\ batches' = [batches EXCEPT ![t].pc = "perform"]
       ELSE /\ UNCHANGED progDatas
            /\ \/ OverlapCrash
               \/ batches' = [batches EXCEPT ![t].pc = "perform"]
    /\ UNCHANGED <<supportResuming, assertFailed, overlapRest>>

\* performBatchDownload: the progress callback on the first tracker of the batch,
\* then the return; a tracker the other batch has removed is a wild access
Overlap_Perform(t) ==
    /\ batches[t].pc = "perform"
    /\ IF Len(progDatas) >= 1
       THEN /\ \E totalToDownload \in 0..MaxBytes, nowDownloaded \in 0..MaxBytes :
                progDatas' = [progDatas EXCEPT ![1] =
                    batchDownloadProgressFunc(progDatas[1], totalToDownload,
                                              nowDownloaded, CocosThread).pd]
            /\ batches' = [batches EXCEPT ![t].pc = "account"]
       ELSE /\ UNCHANGED progDatas
            /\ \/ OverlapCrash
               \/ batches' = [batches EXCEPT ![t].pc = "account"]
    /\ UNCHANGED <<supportResuming, assertFailed, overlapRest>>

\* groupBatchDownload: the accounting loop, the closing loop, and
\* clearBatchDownloadData
Overlap_Finish(t) ==
    /\ batches[t].pc = "account"
    /\ progDatas' = <<>>
    /\ batches' = [batches EXCEPT ![t].pc = "end"]
    /\ UNCHANGED <<supportResuming, assertFailed, overlapRest>>

\* batchDownloadSync: _supportResuming = false
Overlap_End(t) ==
    /\ batches[t].pc = "end"
    /\ supportResuming' = FALSE
    /\ batches' = [batches EXCEPT ![t].pc = "idle"]
    /\ UNCHANGED <<progDatas, assertFailed, overlapRest>>

OverlapNext ==
    \/ \E t \in BatchThreads : Overlap_batchDownloadAsync(t)
    \/ \E t \in BatchThreads : Overlap_Start(t)
    \/ \E t \in BatchThreads : Overlap_Assert(t)
    \/ \E t \in BatchThreads : Overlap_Resize(t)
    \/ \E t \in BatchThreads : Overlap_Prepare(t)
    \/ \E t \in BatchThreads : Overlap_Perform(t)
    \/ \E t \in BatchThreads : Overlap_Finish(t)
    \/ \E t \in BatchThreads : Overlap_End(t)

SpecOverlap == Init /\ [][OverlapNext]_vars

(***************************************************************************)
(* Two single transfers at once on the same Downloader: two detached       *)
(* threads run downloadToFP or downloadToBuffer.  Both use the one         *)
(* DownloaderImpl of the Downloader, and no lock makes init and            *)
(* performDownload one step.                                               *)
(***************************************************************************)
\* everything the two single transfers leave alone
twoRest ==
    <<destroyed, callerRef, workerRef, supportResuming, progDatas, callVars, mainPc,
      log, opens, renamed, handed, acct, stores, calls, round, batches, writes,
      uafWorker, uafClosure, assertFailed, ubFclose>>

\* the tracker of the file transfer of thread t, as prepareDownload fills it
TwoData(t) ==
    prepareDownload(UnitUrls[t], GoodPath(t), UnitIds[t], FALSE, EmptyProgressData,
                    fs, supportResuming, {}).pData

\* downloadAsync(srcUrl, storagePath, customId) on thread t
Two_downloadAsync(t) ==
    /\ singles[t].pc = "idle"
    /\ singles' = [singles EXCEPT ![t] = [IdleSingle EXCEPT !.pc = "init", !.kind = "file"]]
    /\ UNCHANGED <<implUrl, implError, fs, queue, twoRest>>

\* downloadToBufferAsync(srcUrl, buffer, size, customId) on thread t
Two_downloadToBufferAsync(t) ==
    /\ singles[t].pc = "idle"
    /\ singles' = [singles EXCEPT ![t] = [IdleSingle EXCEPT !.pc = "init", !.kind = "buffer"]]
    /\ UNCHANGED <<implUrl, implError, fs, queue, twoRest>>

\* the thread up to _downloaderImpl->init(srcUrl): prepareDownload on the file path
Two_Init(t) ==
    /\ singles[t].pc = "init"
    /\ fs' = IF singles[t].kind = "file"
             THEN prepareDownload(UnitUrls[t], GoodPath(t), UnitIds[t], FALSE,
                                  EmptyProgressData, fs, supportResuming, {}).fs
             ELSE fs
    /\ implUrl' = UnitUrls[t]
    /\ singles' = [singles EXCEPT ![t].pc = "perform"]
    /\ UNCHANGED <<implError, queue, twoRest>>

\* _downloaderImpl->performDownload: the engine transfers the url it was last
\* initialised with and keeps the error of a failed transfer
Two_Perform(t) ==
    /\ singles[t].pc = "perform"
    /\ \E r \in {CURLE_OK, CURLE_COULDNT_CONNECT} :
        /\ singles' = [singles EXCEPT ![t].pc = "finish", ![t].did = implUrl,
                                      ![t].res = r]
        /\ implError' = IF r # 0 THEN implUrl ELSE implError
    /\ UNCHANGED <<implUrl, fs, queue, twoRest>>

\* the thread after the engine call: getStrError and notifyError, or the rename
\* and the success closure
Two_Finish(t) ==
    /\ singles[t].pc = "finish"
    /\ LET failed == singles[t].res # 0
           isFile == singles[t].kind = "file"
           d == TwoData(t)
       IN  /\ singles' = [singles EXCEPT ![t].pc = "done",
                                         ![t].msg = IF failed THEN implError ELSE ""]
           /\ fs' = IF ~isFile THEN fs
                    ELSE IF failed THEN removeFile(fs, TempOf(d))
                    ELSE renameFile(fs, d.path, d.name \o <<TEMP_EXT>>, d.name)
           /\ queue' = Append(queue,
                 IF failed
                 THEN notifyError("CURL_EASY_ERROR", UnitIds[t], singles[t].res)
                 ELSE Closure("success", UnitIds[t], "", 0, UnitUrls[t],
                              IF isFile THEN d.path \o d.name ELSE <<>>, 0, 0))
    /\ UNCHANGED <<implUrl, implError, twoRest>>

\* the scheduler runs the oldest closure on the owning thread
Two_RunClosure ==
    /\ queue # <<>>
    /\ queue' = Tail(queue)
    /\ log' = log \o Handlers(CocosThread, Head(queue))
    /\ UNCHANGED <<dlVars, callVars, fs, mainPc, histVars>>

TwoNext ==
    \/ \E t \in AsyncThreads : Two_downloadAsync(t)
    \/ \E t \in AsyncThreads : Two_downloadToBufferAsync(t)
    \/ \E t \in AsyncThreads : Two_Init(t)
    \/ \E t \in AsyncThreads : Two_Perform(t)
    \/ \E t \in AsyncThreads : Two_Finish(t)
    \/ Two_RunClosure

SpecTwoAsync == Init /\ [][TwoNext]_vars

(***************************************************************************)
(* Properties                                                              *)
(***************************************************************************)
\* the call has returned and the owning thread has run every closure
Quiet == pc = "done" /\ queue = <<>> /\ mainPc = "idle"

Indices(h) == {i \in DOMAIN log : log[i].h = h}

\* the batch-complete invocations of the success handler
BatchCompleteIndices ==
    {i \in Indices("success") : log[i].url = "" /\ log[i].path = <<>>}

RECURSIVE Flatten(_)
Flatten(ss) == IF ss = <<>> THEN <<>> ELSE Head(ss) \o Flatten(Tail(ss))

UnitIdsOf(us) == [i \in 1..Len(us) |-> us[i].customId]

\* C1: every invocation of onError, onProgress or onSuccess happens on the owning
\* thread, including the errors prepareDownload raises on a worker thread.
C1_HandlersOnOwningThread == \A i \in DOMAIN log : log[i].thread = CocosThread

C3_SingleSuccess ==
    (op.kind = "file" /\ Quiet /\ res = 0 /\ callerRef) =>
        /\ isFileExist(fs, op.path)
        /\ ~isFileExist(fs, Append(op.path, TEMP_EXT))
        /\ Cardinality(Indices("success")) = 1
        /\ \A i \in Indices("success") : log[i].thread = CocosThread

\* C4: after a single transfer whose engine call returned a non-zero result onError
\* has been invoked exactly once, with the engine's code, onSuccess never, and on
\* the file path the temp file is gone; also when the preparation had failed
\* (the caller kept the Downloader alive).
C4_SingleEngineError ==
    (op.kind \in {"file", "buffer"} /\ Quiet /\ res # 0 /\ callerRef) =>
        /\ Cardinality(Indices("error")) = 1
        /\ \A i \in Indices("error") :
            log[i].code = "CURL_EASY_ERROR" /\ log[i].native = res /\ log[i].id = op.id
        /\ Indices("success") = {}
        /\ op.kind = "file" => ~isFileExist(fs, Append(op.path, TEMP_EXT))

\* C5: in batch mode the success handler is invoked exactly once per batch call,
\* with empty url, empty path and the batch id, and no unit gets an onSuccess
\* invocation of its own (the caller kept the Downloader alive).
C5_BatchSuccessOnce ==
    (op.kind = "batch" /\ callerRef) =>
        /\ \A i \in Indices("success") :
            log[i].url = "" /\ log[i].path = <<>> /\ log[i].id = op.batchId
        /\ Quiet => Cardinality(Indices("success")) = 1

\* C5, amended: the batch-complete invocation (empty url, empty path, batch id)
\* happens exactly once per batch call whose Downloader is alive when the closure
\* runs, after all groups have been processed; besides it, a unit whose progress
\* callback reports nowDownloaded = totalToDownload gets, right after that progress
\* notification, an onSuccess invocation of its own with its url, final path and
\* correlation id, and there is no other onSuccess invocation.
C5_BatchSuccessAmended ==
    op.kind = "batch" =>
        /\ \A i \in Indices("success") :
            IF i \in BatchCompleteIndices
            THEN /\ log[i].id = op.batchId
                 /\ pc = "done"
                 /\ Len(handed) * FOPEN_MAX >= Len(op.units)
                 /\ BatchCompleteIndices = {i}
            ELSE /\ i > 1
                 /\ log[i - 1].h = "progress"
                 /\ log[i - 1].id = log[i].id
                 /\ log[i - 1].now = log[i - 1].total
                 /\ \E k \in DOMAIN op.units :
                     /\ op.units[k].customId = log[i].id
                     /\ op.units[k].srcUrl = log[i].url
                     /\ op.units[k].storagePath = log[i].path
        /\ \A i \in Indices("progress") :
            log[i].now = log[i].total =>
                i < Len(log) /\ log[i + 1].h = "success" /\ log[i + 1].id = log[i].id
        /\ (Quiet /\ callerRef) => Cardinality(BatchCompleteIndices) = 1

\* a finished batch that delivered a unit's own success and the batch-complete call
C5_Witness ==
    /\ op.kind = "batch"
    /\ Quiet
    /\ Cardinality(BatchCompleteIndices) = 1
    /\ Indices("success") \ BatchCompleteIndices # {}

C7_Grouping ==
    (op.kind = "batch" /\ pc = "done") =>
        /\ Len(handed) = (Len(op.units) + FOPEN_MAX - 1) \div FOPEN_MAX
        /\ \A g \in DOMAIN handed : Len(handed[g]) \in 1..FOPEN_MAX
        /\ Flatten(handed) = UnitIdsOf(op.units)

\* a returned batch with more units than the open-file limit
C7_Witness ==
    /\ op.kind = "batch"
    /\ pc = "done"
    /\ Len(op.units) > FOPEN_MAX
    /\ Len(handed) = 2
    /\ Len(handed[1]) = FOPEN_MAX

\* C8: in a buffer download no byte is stored outside [0, capacity) of the
\* caller's buffer, whatever the write callbacks.
C8_BufferGuard ==
    op.kind = "buffer" =>
        \A st \in stores : st[1] = "buffer" /\ st[2] < streamBuffer.total

\* C9: no closure scheduled on the owning thread calls a user handler or reads a
\* member of a Downloader that has been destroyed.
C9_NoUseAfterDestroy == ~uafClosure

\* C10: the temp file is opened in append mode exactly when the unit has
\* resumeRequested and its temp file already exists.
C10_AppendWhenResumeAndExists ==
    \A o \in opens : (o.mode = "ab") <=> (o.resume /\ o.existed)

\* the bytes now on disk for an opened destination, under its temp or final name
ContentOf(o) ==
    IF isFileExist(fs, o.file) THEN fs[o.file]
    ELSE IF isFileExist(fs, o.final) THEN fs[o.final] ELSE <<>>

\* C10, amended: the temp file is opened in append mode exactly when the unit has
\* resumeRequested, its temp file already exists and the resume probe of the batch
\* returned true; its existing bytes are then kept and the new bytes follow them.
\* In every other case, so in every single transfer, it is opened in truncate
\* mode and holds new bytes only.
C10_AppendAmended ==
    /\ \A o \in opens : (o.mode = "ab") <=> (o.supp /\ o.resume /\ o.existed)
    /\ pc \notin {"done", "crashed"} => \A o \in opens : o.supp = supportResuming
    /\ op.kind = "file" => \A o \in opens : o.mode = "wb"
    /\ \A o \in opens :
        (o.ok /\ (isFileExist(fs, o.file) \/ isFileExist(fs, o.final))) =>
            LET c == ContentOf(o)
                kept == IF o.mode = "ab" THEN o.old ELSE <<>>
            IN  /\ Len(c) >= Len(kept)
                /\ SubSeq(c, 1, Len(kept)) = kept
                /\ \A k \in (Len(kept) + 1)..Len(c) : c[k] = 1

\* a resumed unit whose temp file holds the old byte followed by a new one
C10_Witness ==
    \E o \in opens : o.mode = "ab" /\ o.old = <<0>> /\ ContentOf(o) = <<0, 1>>

\* the unit of the batch in flight that has correlation id `id`
UnitOf(id) == CHOOSE u \in {op.units[k] : k \in DOMAIN op.units} : u.customId = id

FailedMembers == {k \in DOMAIN acct : acct[k].outcome = "error"}

\* C12: after a failed single file transfer its temp file does not exist; after a
\* failed member of a batch its temp file is still on disk and no file exists under
\* its final name.
C12_TempCleanup ==
    /\ (op.kind = "file" /\ pc = "done" /\ res # 0) =>
        ~isFileExist(fs, Append(op.path, TEMP_EXT))
    /\ op.kind = "batch" =>
        \A k \in FailedMembers :
            /\ isFileExist(fs, Append(UnitOf(acct[k].id).storagePath, TEMP_EXT))
            /\ ~isFileExist(fs, UnitOf(acct[k].id).storagePath)

\* C12, amended: after a single file transfer whose engine call failed its temp
\* file does not exist.  A batch never deletes a temp file: after a failed member
\* of a batch its temp file is on disk exactly when this batch opened it or an
\* earlier run had left it there (a member whose destination could not be prepared
\* has created none), and no file exists under its final name.
C12_TempCleanupAmended ==
    /\ (op.kind = "file" /\ pc = "done" /\ res # 0) =>
        ~isFileExist(fs, Append(op.path, TEMP_EXT))
    /\ op.kind = "batch" =>
        \A k \in FailedMembers :
            LET u == UnitOf(acct[k].id)
                temp == Append(u.storagePath, TEMP_EXT)
            IN  /\ isFileExist(fs, temp) <=>
                    \E o \in opens : o.file = temp /\ (o.ok \/ o.existed)
                /\ ~isFileExist(fs, u.storagePath)

\* a finished batch with a failed member whose temp file holds the byte it received
C12_Witness ==
    /\ op.kind = "batch"
    /\ pc = "done"
    /\ \E k \in FailedMembers :
        LET temp == Append(UnitOf(acct[k].id).storagePath, TEMP_EXT)
        IN  isFileExist(fs, temp) /\ fs[temp] = <<1>>

\* C14: within one batch the preparation of a group starts only when, for every
\* earlier group, the engine batch call has returned, every tracker has been
\* accounted, every file handle has been closed and the tracker list is empty.
C14_GroupsSequential ==
    [][/\ handed' # handed =>
            /\ progDatas = <<>>
            /\ Len(acct) = Len(Flatten(handed))
       \* the loop lets go of the units of the group before only with closed handles
       /\ (pc = "resume" /\ units' # units) =>
            /\ \A i \in DOMAIN units : units[i].fp = NullFP
            /\ Len(acct) = Len(Flatten(handed))]_vars

\* the second group of a batch is with the engine, one of its temp files open
C14_Witness ==
    /\ op.kind = "batch"
    /\ pc = "batchPerform"
    /\ Len(handed) = 2
    /\ Len(acct) = FOPEN_MAX
    /\ \E i \in DOMAIN units : units[i].fp # NullFP

\* the NETWORK error closures for correlation id `id` that are scheduled or have run
NetworkErrors(id) ==
    Cardinality({k \in DOMAIN queue :
                    queue[k].k = "error" /\ queue[k].code = "NETWORK" /\ queue[k].id = id})
        + Cardinality({i \in Indices("error") :
                          log[i].code = "NETWORK" /\ log[i].id = id})

\* C15: after the engine's batch call has returned every tracker of the group has
\* exactly one outcome: a NETWORK error with the unit's correlation id when
\* bytesDownloaded < bytesTotal or bytesTotal = 0, otherwise the rename of its temp
\* file to the final name; and when groupBatchDownload has returned every file
\* handle of the group is closed.
C15_GroupAccounting ==
    op.kind = "batch" =>
        /\ pc \in {"resume", "batchEnd", "done"} =>
            /\ [k \in DOMAIN acct |-> acct[k].id] = Flatten(handed)
            /\ \A i \in DOMAIN units : units[i].fp = NullFP
        /\ \A k \in DOMAIN acct :
            LET a == acct[k]
                final == UnitOf(a.id).storagePath
            IN  /\ a.outcome = "error" <=> (a.downloaded < a.total \/ a.total = 0)
                /\ a.outcome = "error" =>
                    /\ NetworkErrors(a.id) <= 1
                    /\ callerRef => NetworkErrors(a.id) = 1
                    /\ \A r \in renamed : r.id # a.id
                /\ a.outcome = "rename" =>
                    /\ NetworkErrors(a.id) = 0
                    /\ \E r \in renamed : r.id = a.id /\ r.file = final
                    /\ isFileExist(fs, final)
                    /\ ~isFileExist(fs, Append(final, TEMP_EXT))

\* a returned group with a renamed unit and a failed unit whose temp file had been
\* opened
C15_Witness ==
    /\ op.kind = "batch"
    /\ pc = "batchEnd"
    /\ \E k \in DOMAIN acct : acct[k].outcome = "rename"
    /\ \E k \in FailedMembers :
        /\ acct[k].total > 0
        /\ \E o \in opens : o.id = acct[k].id /\ o.ok

\* C17: in a non-empty batch the engine is initialised with the first unit's url
\* and the resume flag is set from the probe once, before any destination of any
\* group is prepared; every unit of every group is prepared under that value, and
\* the flag changes again only by the reset to false at the end of the batch.
C17_ResumeProbedOnce ==
    [][/\ supportResuming' # supportResuming =>
            \/ /\ pc = "batchStart"
               /\ Len(op.units) > 0
               /\ opens = {}
               /\ handed = <<>>
            \/ /\ pc = "batchEnd"
               /\ pc' = "done"
               /\ ~supportResuming'
       /\ (op.kind = "batch" /\ implUrl' # implUrl) =>
            /\ pc = "batchStart"
            /\ implUrl' = op.units[1].srcUrl
       /\ (op.kind = "batch" /\ handed' # handed) =>
            /\ implUrl = op.units[1].srcUrl
            /\ \A o \in opens' : o.supp = supportResuming]_vars

\* the second group of a batch prepared under the positive probe result of the
\* batch, after a unit of the first group was opened in append mode
C17_Witness ==
    /\ op.kind = "batch"
    /\ pc = "batchPerform"
    /\ supportResuming
    /\ Len(handed) = 2
    /\ \E o \in opens : o.id = UnitIds[1] /\ o.mode = "ab"
    /\ \E o \in opens : o.id = UnitIds[3] /\ o.supp

LastCall(cs) == cs[Len(cs)]

\* the tracker of the batch group in flight that has correlation id `id`
TrackerOf(pds, id) == pds[CHOOSE i \in DOMAIN pds : pds[i].customId = id]

\* C18: a batch progress callback whose nowDownloaded differs from the tracker's
\* stored count updates the count and emits exactly one notification, "file
\* finished" if nowDownloaded = totalToDownload and "in progress" otherwise, inline
\* when the callback runs on the owning thread and marshaled otherwise; a callback
\* whose nowDownloaded equals the stored count emits nothing.
C18_BatchProgress ==
    [][(op.kind = "batch" /\ calls' # calls) =>
        LET c == LastCall(calls')
            finished == c.now = c.total
            n == Len(log)
        IN  IF c.now # c.stored
            THEN /\ TrackerOf(progDatas', c.id).downloaded = c.now
                 /\ IF op.thread = CocosThread
                    THEN /\ queue' = queue
                         /\ Len(log') = n + (IF finished THEN 2 ELSE 1)
                         /\ SubSeq(log', 1, n) = log
                         /\ log'[n + 1].h = "progress"
                         /\ log'[n + 1].thread = CocosThread
                         /\ log'[n + 1].id = c.id
                         /\ log'[n + 1].now = c.now
                         /\ log'[n + 1].total = c.total
                         /\ finished => log'[n + 2].h = "success" /\ log'[n + 2].id = c.id
                    ELSE /\ log' = log
                         /\ Len(queue') = Len(queue) + 1
                         /\ SubSeq(queue', 1, Len(queue)) = queue
                         /\ LastCall(queue').k =
                                (IF finished THEN "batchFinished" ELSE "batchInProgress")
                         /\ LastCall(queue').id = c.id
                         /\ LastCall(queue').now = c.now
                         /\ LastCall(queue').total = c.total
            ELSE /\ queue' = queue
                 /\ log' = log
                 /\ TrackerOf(progDatas', c.id).downloaded = c.stored]_vars

\* a batch on the owning thread whose last progress callback reported a finished
\* file, after a callback on the same tracker that changed nothing
C18_Witness ==
    /\ op.kind = "batch"
    /\ op.thread = CocosThread
    /\ pc = "batchPerform"
    /\ Len(calls) = 2
    /\ calls[1].now = calls[1].stored
    /\ calls[2].id = calls[1].id
    /\ calls[2].now = calls[2].total
    /\ calls[2].now # calls[2].stored
    /\ Len(log) >= 2

\* the trackers alive in a state, by correlation id: the local ProgressData of a
\* single transfer, the tracker list of a batch group
Trackers(single, pd, pds) ==
    IF single THEN {pd} ELSE {pds[i] : i \in DOMAIN pds}

Transferring1 == pc \in {"perform", "batchPerform"}

\* the progress callbacks made so far for correlation id `id`
CallsOf(cs, id) == {k \in DOMAIN cs : cs[k].id = id}

\* C19: a tracker's bytesTotal is 0 until the first progress callback of its
\* transfer and is not changed by any later progress callback of that transfer.
C19_TotalSetOnce ==
    [][(Transferring1 /\ calls' # calls) =>
        LET c == LastCall(calls')
            single == op.kind # "batch"
            before == IF single THEN data ELSE TrackerOf(progDatas, c.id)
            after == IF single THEN data' ELSE TrackerOf(progDatas', c.id)
        IN  IF CallsOf(calls, c.id) = {}
            THEN before.totalToDownload = 0 /\ after.totalToDownload = c.total
            ELSE after.totalToDownload = before.totalToDownload]_vars

\* C19, amended: a tracker's bytesTotal is 0 until the first progress callback
\* that reports a non-zero totalToDownload, takes the total of that callback, and
\* is not changed by any later progress callback of the transfer; progress
\* callbacks that report a total of 0 leave it at 0.
C19_TotalSetOnceAmended ==
    [][(Transferring1 /\ calls' # calls) =>
        LET c == LastCall(calls')
            single == op.kind # "batch"
            before == IF single THEN data ELSE TrackerOf(progDatas, c.id)
            after == IF single THEN data' ELSE TrackerOf(progDatas', c.id)
            earlier == {calls[k].total : k \in CallsOf(calls, c.id)}
        IN  /\ before.totalToDownload = 0 <=> earlier \subseteq {0}
            /\ IF before.totalToDownload = 0
               THEN after.totalToDownload = c.total
               ELSE /\ after.totalToDownload = before.totalToDownload
                    /\ before.totalToDownload \in earlier]_vars

\* a tracker whose first progress callback reported an unknown total and whose
\* second one set it
C19_Witness ==
    /\ Transferring1
    /\ Len(calls) = 2
    /\ calls[1].id = calls[2].id
    /\ calls[1].total = 0
    /\ calls[2].total = 1
    /\ calls[2].known = 0
    /\ \E t \in Trackers(op.kind # "batch", data, progDatas) :
        t.customId = calls[2].id /\ t.totalToDownload = 1

\* the progress callbacks for `id` that dispatched a notification, in engine order
Dispatched(id) == SelectSeq(calls, LAMBDA c : c.id = id /\ c.now # c.stored)

\* the progress notifications for `id` the user has received, in order
Delivered(id) == SelectSeq(log, LAMBDA e : e.h = "progress" /\ e.id = id)

\* the progress notifications for `id` that wait in the scheduler queue
Pending(id) ==
    SelectSeq(queue, LAMBDA c : c.id = id /\
                  c.k \in {"progress", "batchInProgress", "batchFinished"})

\* bytesTotal of the tracker right after progress callback c
TotalAfter(c) == IF c.known = 0 THEN c.total ELSE c.known

TransferIds == {calls[k].id : k \in DOMAIN calls}

\* C20: the progress notifications of a transfer reach the user in the order the
\* engine made the progress callbacks, each with the url, the correlation id and
\* the byte counts the tracker had when the notification was dispatched.
C20_ProgressOrder ==
    \A id \in TransferIds :
        LET d == Delivered(id)
            e == Dispatched(id)
        IN  /\ Len(d) <= Len(e)
            /\ \A k \in DOMAIN d :
                /\ d[k].url = e[k].url
                /\ d[k].now = e[k].now
                /\ d[k].total = TotalAfter(e[k])

\* C20, amended: the progress notifications of a transfer reach the user in the
\* order the engine made the progress callbacks that dispatched them; each carries
\* the url and correlation id of the tracker and the nowDownloaded and
\* totalToDownload arguments of its own callback (nowDownloaded is the tracker's
\* count at dispatch, totalToDownload need not be the tracker's stored total),
\* never values of a later callback; while the Downloader is alive none is lost.
C20_ProgressOrderAmended ==
    \A id \in TransferIds :
        LET d == Delivered(id)
            q == Pending(id)
            e == Dispatched(id)
        IN  /\ Len(d) <= Len(e)
            /\ \A k \in DOMAIN d :
                /\ d[k].thread = CocosThread
                /\ d[k].url = e[k].url
                /\ d[k].now = e[k].now
                /\ d[k].total = e[k].total
            /\ (~destroyed /\ mainPc = "idle") =>
                /\ Len(d) + Len(q) = Len(e)
                /\ \A k \in DOMAIN q :
                    /\ q[k].url = e[Len(d) + k].url
                    /\ q[k].now = e[Len(d) + k].now
                    /\ q[k].total = e[Len(d) + k].total

\* two progress notifications of one transfer, dispatched on a worker thread with
\* different byte counts, have both been delivered
C20_Witness ==
    /\ op.thread = WorkerThread
    /\ queue = <<>>
    /\ \E id \in TransferIds :
        /\ Len(Delivered(id)) = 2
        /\ Delivered(id)[1].now # Delivered(id)[2].now
        /\ Delivered(id)[1].thread = CocosThread

\* the write callbacks of the single transfer in flight that stored their byte
FileWrites == steps - Len(calls)

\* C11: downloadSync calls made one after the other on the same url and
\* destination leave, after each call whose destination was prepared and whose
\* engine call returned 0, a final file that holds exactly the bytes of that call:
\* the single path opens the temp file in truncate mode, and nothing an earlier
\* complete or partial download left is kept.
C11_NoAccumulation ==
    op.kind = "file" =>
        /\ \A o \in opens : o.mode = "wb"
        /\ (pc = "done" /\ res = 0 /\ \E o \in opens : o.ok) =>
            /\ isFileExist(fs, op.path)
            /\ fs[op.path] = [k \in 1..FileWrites |-> round]
            /\ ~isFileExist(fs, Append(op.path, TEMP_EXT))

\* the second call has received one byte into its temp file while the final file
\* still holds the two bytes of the first call
C11_Witness ==
    /\ op.kind = "file"
    /\ round = 2
    /\ pc = "finish"
    /\ res = 0
    /\ isFileExist(fs, op.path)
    /\ fs[op.path] = <<1, 1>>
    /\ isFileExist(fs, Append(op.path, TEMP_EXT))
    /\ fs[Append(op.path, TEMP_EXT)] = <<2>>

\* C16: when batchDownloadSync has returned the tracker list is empty and the
\* resume flag is false, whatever the outcomes of the units; so between batches
\* that do not overlap both hold, and the emptiness assertion at the start of a
\* group never fails.
C16_CleanBetweenBatches ==
    /\ pc \in {"idle", "done"} => progDatas = <<>> /\ ~supportResuming
    /\ pc = "group" => progDatas = <<>>
    /\ ~assertFailed

\* the second batch on the Downloader has returned, with a failed unit and a
\* renamed one
C16_Witness ==
    /\ round = 2
    /\ pc = "done"
    /\ \E k \in DOMAIN acct : acct[k].outcome = "error"
    /\ \E k \in DOMAIN acct : acct[k].outcome = "rename"

\* C13: when two batches overlap on one Downloader the emptiness assertion stops
\* one of them before it resizes or writes the tracker list: never are both
\* batches between their assertion and their clearBatchDownloadData.
C13_AssertionSerialises ==
    ~(\A t \in BatchThreads : batches[t].pc \in UsingTrackers)

Single == op.kind \in {"file", "buffer"}

\* C21: a single transfer whose engine call returned 0 reports its success inline,
\* before the Sync call returns and without the scheduler, when it runs on the
\* owning thread; on any other thread the calling thread invokes no handler for it
\* and schedules exactly one closure on the owning thread (the Downloader is alive
\* when the transfer ends).
C21_SuccessInlineOrMarshaled ==
    [][(Single /\ pc = "finish" /\ pc' = "done" /\ res = 0 /\ ~destroyed) =>
        IF op.thread = CocosThread
        THEN /\ queue' = queue
             /\ Len(log') = Len(log) + 1
             /\ SubSeq(log', 1, Len(log)) = log
             /\ LastCall(log').h = "success"
             /\ LastCall(log').thread = CocosThread
             /\ LastCall(log').id = op.id
             /\ LastCall(log').url = op.url
        ELSE /\ log' = log
             /\ Len(queue') = Len(queue) + 1
             /\ SubSeq(queue', 1, Len(queue)) = queue
             /\ LastCall(queue').k = "success"
             /\ LastCall(queue').id = op.id
             /\ LastCall(queue').url = op.url]_vars

\* a downloadToBufferSync call on the owning thread has returned with its success
\* reported, while the progress notification of the transfer still waits in the
\* scheduler
C21_Witness ==
    /\ op.kind = "buffer"
    /\ op.thread = CocosThread
    /\ pc = "done"
    /\ res = 0
    /\ Cardinality(Indices("success")) = 1
    /\ queue # <<>>
    /\ \A k \in DOMAIN queue : queue[k].k = "progress"

\* C22: on the owning thread the batch-complete onSuccess of a batch is delivered
\* after every error notification and every progress notification of the units of
\* the batch: when it is delivered no notification of a unit waits in the
\* scheduler, every progress notification that was dispatched and every NETWORK
\* error of the accounting has been delivered, and nothing is delivered after it
\* (the scheduler runs closures in FIFO order).
C22_BatchCompleteLast ==
    op.kind = "batch" =>
        /\ \A k \in DOMAIN queue : queue[k].k = "batchComplete" => k = Len(queue)
        /\ \A i \in BatchCompleteIndices :
            /\ i = Len(log)
            /\ queue = <<>>
            /\ pc \in {"done", "crashed"}
            /\ \A id \in TransferIds : Len(Delivered(id)) = Len(Dispatched(id))
            /\ \A k \in FailedMembers :
                \E j \in Indices("error") :
                    j < i /\ log[j].code = "NETWORK" /\ log[j].id = acct[k].id

\* a batch run on the owning thread has delivered its batch-complete call after
\* the progress notification of one unit and the NETWORK error of another
C22_Witness ==
    /\ op.kind = "batch"
    /\ op.thread = CocosThread
    /\ Quiet
    /\ BatchCompleteIndices = {Len(log)}
    /\ \E j \in Indices("error") : log[j].code = "NETWORK"
    /\ \E j \in Indices("progress") : \A k \in Indices("error") : log[k].id # log[j].id

\* C23: whenever the success handler is invoked with a non-empty final path, the
\* file exists under that name at the moment of the invocation, in the single path
\* and in the batch path.
C23_FileExistsAtSuccess ==
    [][\A i \in (Len(log) + 1)..Len(log') :
        (log'[i].h = "success" /\ log'[i].path # <<>>) =>
            isFileExist(fs', log'[i].path)]_vars

\* C24: for every single transfer every progress notification of the transfer is
\* delivered before the transfer's onSuccess, on a worker thread and when
\* downloadSync or downloadToBufferSync is called on the owning thread.
C24_ProgressBeforeSuccess ==
    Single =>
        \A i \in Indices("success") :
            /\ \A j \in Indices("progress") : j < i
            /\ Pending(op.id) = <<>>

\* C24, amended: when a single transfer runs on a worker thread, every progress
\* notification of the transfer is delivered before its onSuccess (the scheduler
\* runs closures in FIFO order).  When downloadSync or downloadToBufferSync is
\* called on the owning thread, onSuccess is invoked inline before the call
\* returns, while the progress notifications of the transfer wait in the
\* scheduler: each of them is delivered after the call has returned, and so after
\* onSuccess.
C24_ProgressOrderAmended ==
    Single =>
        IF op.thread # CocosThread
        THEN \A i \in Indices("success") :
                /\ \A j \in Indices("progress") : j < i
                /\ Pending(op.id) = <<>>
                /\ Len(Delivered(op.id)) = Len(Dispatched(op.id))
        ELSE /\ \A j \in Indices("progress") :
                /\ pc = "done"
                /\ res = 0 => \E i \in Indices("success") : i < j
             /\ (pc # "done" \/ ~destroyed) =>
                    Len(Delivered(op.id)) + Len(Pending(op.id)) = Len(Dispatched(op.id))
             /\ pc \notin {"done", "crashed"} => Delivered(op.id) = <<>>

\* a downloadSync call on the owning thread whose success was reported first and
\* whose progress notification was delivered after the call had returned
C24_Witness ==
    /\ op.kind = "file"
    /\ op.thread = CocosThread
    /\ Quiet
    /\ res = 0
    /\ Len(log) = 2
    /\ log[1].h = "success"
    /\ log[2].h = "progress"

\* C25: the assertion of the file-write callback that the handle of the unit is
\* non-null never fails and fclose is never called on a null handle: a unit whose
\* destination could not be prepared is never handed to performDownload or
\* performBatchDownload and is never closed.
C25_NullHandleNeverUsed ==
    /\ ~assertFailed
    /\ ~ubFclose
    /\ (op.kind \in {"file", "batch"} /\ pc \in {"perform", "batchPerform"}) =>
        \A i \in DOMAIN units : units[i].fp # NullFP

\* the errors prepareDownload has raised for correlation id `id`
PrepareErrors(id) ==
    Cardinality({i \in Indices("error") :
                    log[i].id = id /\ log[i].code \in {"INVALID_URL", "CREATE_FILE"}})

\* C26: for each unit of a batch at most one onError notification is produced per
\* batch call: a unit that got INVALID_URL or CREATE_FILE (or an engine
\* multi-error) is not reported again as a NETWORK error by the accounting
\* (stated here for the two errors of prepareDownload).
C26_OneErrorPerUnit ==
    op.kind = "batch" =>
        \A k \in DOMAIN op.units :
            LET id == op.units[k].customId
            IN  /\ PrepareErrors(id) <= 1
                /\ PrepareErrors(id) + NetworkErrors(id) <= 1

\* the "file finished" reports for correlation id `id`: delivered to the progress
\* handler with nowDownloaded = totalToDownload, or waiting in the scheduler
FinishedReports(id) ==
    Cardinality({k \in DOMAIN queue : queue[k].k = "batchFinished" /\ queue[k].id = id})
        + Cardinality({i \in Indices("success") : log[i].id = id})

\* C27: no unit of a batch gets both a "file finished" notification and an error
\* notification in the same batch call, whatever totals and counts the engine
\* gives the progress callback (stated here for the NETWORK error of the accounting).
C27_FinishedExcludesError ==
    op.kind = "batch" =>
        \A k \in DOMAIN op.units :
            LET id == op.units[k].customId
            IN  ~(FinishedReports(id) > 0 /\ NetworkErrors(id) > 0)

\* C28: while a worker thread started by an Async call is executing on the
\* Downloader, the Downloader is not destroyed: the caller dropping its reference
\* never leads to an access to a destroyed Downloader or engine.
C28_WorkerKeepsAlive ==
    /\ ~uafWorker
    /\ (op.thread = WorkerThread /\ pc \notin {"idle", "done", "crashed"}) => ~destroyed

\* C29: when two single-transfer Async calls run at once on one Downloader, no
\* init of the other worker comes between a worker's init(url) and its
\* performDownload: each transfer is performed for its own url and each error
\* message reported is the one of its own transfer.
C29_InitWithOwnTransfer ==
    \A t \in AsyncThreads :
        /\ singles[t].pc = "perform" => implUrl = UnitUrls[t]
        /\ singles[t].pc \in {"finish", "done"} => singles[t].did = UnitUrls[t]
        /\ (singles[t].pc = "done" /\ singles[t].res # 0) => singles[t].msg = UnitUrls[t]

RECURSIVE Accepted(_, _)
\* the bytes the write callbacks before call k have accepted
Accepted(ws, k) == IF k <= 1 THEN 0 ELSE ws[k - 1].ret + Accepted(ws, k - 1)

\* C30: in a buffer download the record the write callback reads through the unit
\* is the stream record built from the caller's arguments: its buffer is the
\* caller's buffer, its capacity the caller-supplied size, and its offset is 0
\* before the first write and the number of bytes accepted so far after each.
C30_StreamRecord ==
    op.kind = "buffer" =>
        \A k \in DOMAIN writes :
            /\ writes[k].buffer = "buffer"
            /\ writes[k].total = streamBuffer.total
            /\ streamBuffer.total = op.cap
            /\ writes[k].offset = Accepted(writes, k)

\* C31: a batch call without units makes no engine call (no init, no resume probe,
\* no batch transfer), opens no file, emits no error and no progress notification,
\* leaves the resume flag false, and still emits exactly one batch-complete
\* onSuccess with empty url, empty path and the batch id (delivered when the
\* Downloader is alive as its closure runs).
C31_EmptyBatch ==
    (op.kind = "batch" /\ Len(op.units) = 0) =>
        /\ implUrl = ""
        /\ ~supportResuming
        /\ handed = <<>>
        /\ progDatas = <<>>
        /\ steps = 0
        /\ calls = <<>>
        /\ opens = {}
        /\ fs = LeftOver({1})
        /\ \A i \in DOMAIN log : i \in BatchCompleteIndices /\ log[i].id = op.batchId
        /\ \A k \in DOMAIN queue :
            /\ queue[k].k = "batchComplete"
            /\ queue[k].id = op.batchId
            /\ queue[k].url = ""
            /\ queue[k].path = <<>>
        /\ Len(queue) + Len(log) <= 1
        /\ pc # "done" => queue = <<>> /\ log = <<>>
        /\ (pc = "done" /\ ~destroyed) => Len(queue) + Len(log) = 1
        /\ (Quiet /\ callerRef) => Len(log) = 1

\* a batchDownloadAsync call without units has returned and its batch-complete
\* call, the only notification, has been delivered on the owning thread
C31_Witness ==
    /\ op.kind = "batch"
    /\ op.thread = WorkerThread
    /\ Len(op.units) = 0
    /\ Quiet
    /\ Len(log) = 1
    /\ log[1].h = "success"
    /\ log[1].thread = CocosThread
    /\ log[1].id = op.batchId
    /\ log[1].url = ""

====
